---- MODULE Spec2Model ----
(***************************************************************************)
(* A model of expensior: the extraction/identity pipeline and batch        *)
(* loader of scripts/extract_transform.py, the rule engine and the         *)
(* classification store of backend/app/services/classifier.py, and the     *)
(* manual write paths of backend/app/api/endpoints/transactions.py.        *)
(*                                                                         *)
(* Text is a sequence of one-character strings, so that substring search   *)
(* and case folding are computed and not assumed.  A hash is modelled by   *)
(* the sequence of the stringified values it digests (sha256 taken as      *)
(* collision free); an id is a sequence of strings.                        *)
(***************************************************************************)
EXTENDS Integers, Sequences, FiniteSets, TLC

\* Python None / SQL NULL
NULL == "NULL"

(***************************************************************************)
(* Bounds                                                                  *)
(***************************************************************************)
\* rows of a file, for the transform specification
MaxRows == 2
\* the UTC clock runs over 0..MaxClock seconds
MaxClock == 1
\* rows of import_batches
MaxBatches == 2
\* rows of the rules table
MaxRules == 2
\* rows of transaction_classifications
MaxRecords == 2
\* ids the categories table gives out
MaxCategories == 3

(***************************************************************************)
(* Text                                                                    *)
(***************************************************************************)
Range(s) == {s[i] : i \in 1..Len(s)}

UpperChar(c) ==
    CASE c = "u" -> "U"
      [] c = "b" -> "B"
      [] c = "x" -> "X"
      [] OTHER -> c

LowerChar(c) ==
    CASE c = "U" -> "u"
      [] c = "B" -> "b"
      [] c = "X" -> "x"
      [] OTHER -> c

\* str.upper()
Upper(s) == [i \in 1..Len(s) |-> UpperChar(s[i])]

Lower(s) == [i \in 1..Len(s) |-> LowerChar(s[i])]

(***************************************************************************)
(* Extraction and identity (scripts/extract_transform.py)                  *)
(***************************************************************************)
\* short_hash(*values, length): the digest of "|".join(str(v)), truncated
short_hash(values, length) == <<"#", ToString(length)>> \o values

\* A raw statement row, after the label-prefixed cells have been located:
\* ref is the digit string found after the title/reference label ("" when
\* there is none), loc the text found after the address/title label.
RawTypes == {"card_payment", "transfer_to_account", "auto_savings"}

RawRows ==
    [typ : RawTypes, ref : {"", "11"}, account : {"acc"},
     opdate : {"d0", "d1"}, date : {"d1"}, amount : {-5, -7},
     currency : {"PLN"}, loc : {<<"u", "b">>, <<"x">>}]

\* df["Kwota"].shift(-1): the next row's amount, NaN after the last row
Kwota_next(f, i) == IF i < Len(f) THEN ToString(f[i + 1].amount) ELSE "nan"

\* the description column the per-type branches of transform fill in
description_of(r) ==
    CASE r.typ = "card_payment" -> Upper(r.loc)
      [] r.typ = "transfer_to_account" -> Upper(r.loc)
      [] r.typ = "auto_savings" -> <<"auto_savings">>
      [] OTHER -> <<NULL>>

\* the transaction_id the per-type branches of transform fill in; << >> is
\* the empty string
natural_id(f, i) ==
    LET r == f[i] IN
    CASE r.typ = "card_payment" ->
            IF r.ref = "" THEN << >> ELSE <<r.ref>>
      [] r.typ = "transfer_to_account" ->
            <<r.account, " ">>
              \o short_hash(<<r.date, ToString(r.amount)>> \o description_of(r), 4)
      [] r.typ = "auto_savings" ->
            short_hash(<<r.opdate, r.date, r.typ, ToString(r.amount),
                         Kwota_next(f, i)>>, 6)
      [] OTHER -> << >>

\* df_std before the fallback passes
extract(f) ==
    [i \in 1..Len(f) |->
        [transaction_id |-> natural_id(f, i),
         date |-> f[i].date,
         transaction_type |-> f[i].typ,
         amount |-> f[i].amount,
         currency |-> f[i].currency,
         description |-> description_of(f[i]),
         country |-> NULL,
         city |-> NULL]]

\* the seven content fields both fallback hashes digest
content_fields(row) ==
    <<row.date, row.transaction_type, ToString(row.amount), row.currency>>
      \o row.description \o <<row.country, row.city>>

\* pass 1: 'synthetic-' + short_hash(..., length=12) for a missing id
synthetic_id(row) == <<"synthetic-">> \o short_hash(content_fields(row), 12)

fill_missing(std) ==
    [i \in 1..Len(std) |->
        IF std[i].transaction_id = << >>
        THEN [std[i] EXCEPT !.transaction_id = synthetic_id(std[i])]
        ELSE std[i]]

\* Series.duplicated(keep=False)
dup_mask(std, i) ==
    \E j \in 1..Len(std) : j # i /\ std[j].transaction_id = std[i].transaction_id

\* pass 2: f"{base_id}-dup-{suffix}"
dedup_row(row) ==
    row.transaction_id \o <<"-dup-">>
      \o short_hash(content_fields(row) \o row.transaction_id, 8)

dedup(std) ==
    [i \in 1..Len(std) |->
        IF dup_mask(std, i)
        THEN [std[i] EXCEPT !.transaction_id = dedup_row(std[i])]
        ELSE std[i]]

transform(f) == dedup(fill_missing(extract(f)))

\* Summary of ID types in main()
synthetic_count(std) ==
    Cardinality({i \in 1..Len(std) : Head(std[i].transaction_id) = "synthetic-"})

dup_count(std) ==
    Cardinality({i \in 1..Len(std) : "-dup-" \in Range(std[i].transaction_id)})

natural_count(std) == Len(std) - synthetic_count(std) - dup_count(std)

(***************************************************************************)
(* Rule engine (backend/app/services/classifier.py)                        *)
(***************************************************************************)
\* Series.str.contains(re.escape(p), case=False): literal substring search
contains_literal(s, p) ==
    \E i \in 1..(Len(s) - Len(p) + 1) :
        \A k \in 1..Len(p) : LowerChar(s[i + k - 1]) = LowerChar(p[k])

\* re.compile(p) succeeds: of the metacharacters only "." and "(" occur in
\* the modelled patterns, and a "(" is never closed
valid_regex(p) == "(" \notin Range(p)

\* Series.str.contains(p, case=False, regex=True) for a valid pattern
contains_regex(s, p) ==
    \E i \in 1..(Len(s) - Len(p) + 1) :
        \A k \in 1..Len(p) :
            p[k] = "." \/ LowerChar(s[i + k - 1]) = LowerChar(p[k])

\* A conditions cell: SQL NULL, text json.loads rejects, or a condition
\* spec.  keys is the set of keys present in the decoded object; a key
\* outside keys is absent whatever the field of its name holds.
NoConditions == [kind |-> "null"]

Malformed == [kind |-> "malformed"]

\* text json.loads decodes to a value that is not an object: the number 5
NotAnObject == [kind |-> "number"]

ConditionSpec(keys, lo, hi, sign) ==
    [kind |-> "spec", keys |-> keys, min_amount |-> lo, max_amount |-> hi,
     amount_range |-> <<lo, hi>>, amount_sign |-> sign,
     not_contains |-> << >>, must_contain_any |-> << >>,
     must_contain_all |-> << >>]

\* a condition spec of text keys: each present key lists values
TextSpec(keys, values) ==
    [ConditionSpec(keys, 0, 0, "any") EXCEPT !.not_contains = values,
                                            !.must_contain_any = values,
                                            !.must_contain_all = values]

\* the values Series.str.contains is called with: those of the text keys
\* that are present
text_values(conditions) ==
    UNION {Range(conditions[key]) :
             key \in conditions.keys \cap {"not_contains", "must_contain_any",
                                           "must_contain_all"}}

\* apply_conditions raises: `"min_amount" in conditions` is a TypeError for a
\* number, and str.contains(val, case=False) compiles val as a regular
\* expression (regex=True is the default), a re.error for an invalid one
conditions_raise(conditions) ==
    \/ conditions.kind = "number"
    \/ /\ conditions.kind = "spec"
       /\ \E val \in text_values(conditions) : ~valid_regex(val)

apply_conditions_strict(mask, row, conditions) ==
    IF conditions.kind = "null" \/ conditions.keys = {} THEN mask
    ELSE /\ mask
         /\ "min_amount" \in conditions.keys
               => row.amount > conditions.min_amount
         /\ "max_amount" \in conditions.keys
               => row.amount <= conditions.max_amount
         /\ "amount_range" \in conditions.keys
               => /\ row.amount >= conditions.amount_range[1]
                  /\ row.amount <= conditions.amount_range[2]
         /\ ("amount_sign" \in conditions.keys
               /\ conditions.amount_sign = "negative") => row.amount < 0
         /\ ("amount_sign" \in conditions.keys
               /\ conditions.amount_sign = "positive") => row.amount > 0
         /\ "not_contains" \in conditions.keys
               => \A val \in Range(conditions.not_contains) :
                     ~contains_regex(row.description, val)
         /\ "must_contain_any" \in conditions.keys
               => \E val \in Range(conditions.must_contain_any) :
                     contains_regex(row.description, val)
         /\ "must_contain_all" \in conditions.keys
               => \A val \in Range(conditions.must_contain_all) :
                     contains_regex(row.description, val)

apply_conditions(mask, row, conditions) ==
    IF conditions.kind = "null" \/ conditions.keys = {} THEN mask
    ELSE /\ mask
         /\ "min_amount" \in conditions.keys
               => row.amount >= conditions.min_amount
         /\ "max_amount" \in conditions.keys
               => row.amount <= conditions.max_amount
         /\ "amount_range" \in conditions.keys
               => /\ row.amount >= conditions.amount_range[1]
                  /\ row.amount <= conditions.amount_range[2]
         /\ ("amount_sign" \in conditions.keys
               /\ conditions.amount_sign = "negative") => row.amount < 0
         /\ ("amount_sign" \in conditions.keys
               /\ conditions.amount_sign = "positive") => row.amount > 0
         /\ "not_contains" \in conditions.keys
               => \A val \in Range(conditions.not_contains) :
                     ~contains_regex(row.description, val)
         /\ "must_contain_any" \in conditions.keys
               => \E val \in Range(conditions.must_contain_any) :
                     contains_regex(row.description, val)
         /\ "must_contain_all" \in conditions.keys
               => \A val \in Range(conditions.must_contain_all) :
                     contains_regex(row.description, val)

\* the columns of the frame load_unclassified_transactions returns
dft_columns ==
    {"transaction_id", "date", "transaction_type", "amount", "currency",
     "description", "country", "city"}

\* the rule's iteration is abandoned by one of the `continue` statements
\* before its mask is built
rule_skipped(rule) ==
    \/ rule.source_column \notin dft_columns
    \/ rule.match_type = "regex" /\ ~valid_regex(rule.pattern)
    \/ rule.match_type \notin {"contains", "regex"}
    \/ rule.conditions.kind = "malformed"

\* the rule's iteration raises out of apply_rules: only re.error of the base
\* match and json.JSONDecodeError are caught
rule_raises(rule) == ~rule_skipped(rule) /\ conditions_raise(rule.conditions)

\* the mask of one rule on one row: base pattern match, then conditions
rule_mask(rule, row) ==
    /\ ~rule_skipped(rule)
    /\ ~rule_raises(rule)
    /\ apply_conditions(
          IF rule.match_type = "contains"
          THEN contains_literal(row[rule.source_column], rule.pattern)
          ELSE contains_regex(row[rule.source_column], rule.pattern),
          row, rule.conditions)

\* a row of dft before any rule has run
Unassigned == [merchant |-> NULL, category |-> NULL, subcategory |-> NULL,
               rule_id |-> NULL]

\* assign_mask = mask & dft["rule_id"].isna()
assign_mask_always(rule, row, out) == rule_mask(rule, row)

assign_mask(rule, row, out) == rule_mask(rule, row) /\ out.rule_id = NULL

\* one iteration of the loop of apply_rules: dft maps a transaction id to
\* its row, out to its merchant/category/subcategory/rule_id columns
apply_rule(dft, out, rule) ==
    [t \in DOMAIN out |->
        IF assign_mask(rule, dft[t], out[t])
        THEN [merchant |-> rule.merchant, category |-> rule.category,
              subcategory |-> rule.subcategory, rule_id |-> rule.id]
        ELSE out[t]]

RECURSIVE iterate_rules(_, _, _, _)
iterate_rules(dft, out, dfr, k) ==
    IF k > Len(dfr) THEN out
    ELSE iterate_rules(dft, apply_rule(dft, out, dfr[k]), dfr, k + 1)

\* dfr.sort_values("priority", ascending=False): the orders of the rules
\* that descend in priority
IsPermutation(p, n) == /\ p \in [1..n -> 1..n]
                       /\ \A i, j \in 1..n : i # j => p[i] # p[j]

sorted_by_insertion(dfr) == {dfr}

sorted_by_priority(dfr) ==
    {[i \in 1..Len(dfr) |-> dfr[p[i]]] :
        p \in {q \in [1..Len(dfr) -> 1..Len(dfr)] :
                 /\ IsPermutation(q, Len(dfr))
                 /\ \A i, j \in 1..Len(dfr) :
                      i < j => dfr[q[i]].priority >= dfr[q[j]].priority}}

\* apply_rules for rules already in application order
apply_rules(dft, dfr) ==
    iterate_rules(dft, [t \in DOMAIN dft |-> Unassigned], dfr, 1)

(***************************************************************************)
(* State                                                                   *)
(***************************************************************************)
VARIABLES
    \* table import_batches: import_batch_id -> row
    import_batches,
    \* table transactions: transaction_id -> row
    transactions,
    \* table transaction_classifications, in classification_id order
    transaction_classifications,
    \* table rules, in id order
    rules,
    \* table categories: category_id -> row
    categories,
    \* the AUTOINCREMENT counter of categories: the largest id ever given
    sqlite_sequence,
    \* the UTC clock, in seconds
    now,
    \* the operation that made the last step, with what it returned
    op,
    \* the frame of a transform or apply_rules call that is followed pass by
    \* pass: its arguments and local variables
    call

vars == <<import_batches, transactions, transaction_classifications, rules,
          categories, sqlite_sequence, now, op, call>>

(***************************************************************************)
(* Batch loader (scripts/extract_transform.py)                             *)
(***************************************************************************)
\* the statement files that are imported
cardA == [typ |-> "card_payment", ref |-> "11", account |-> "acc",
          opdate |-> "d0", date |-> "d1", amount |-> -5, currency |-> "PLN",
          loc |-> <<"u", "b">>]

cardNoRef == [cardA EXCEPT !.ref = "", !.loc = <<"x">>]

ImportFiles ==
    << <<cardA>>, <<cardNoRef, cardA>>, <<cardNoRef, cardNoRef>> >>

\* sha256_12(path): the digest of the file's bytes
sha256_12(k) == ToString(k)

\* make_batch_id: f"{sha256_12(input_path)}-{ts.strftime(...)}"
make_batch_id(k, ts) == <<sha256_12(k), ToString(ts)>>

\* verb = {'ignore': 'OR IGNORE', 'replace': 'OR REPLACE', 'abort': ''}
verb_replace_for_ignore(on_conflict) ==
    CASE on_conflict = "ignore" -> "OR REPLACE"
      [] on_conflict = "replace" -> "OR REPLACE"
      [] OTHER -> ""

verb(on_conflict) ==
    CASE on_conflict = "ignore" -> "OR IGNORE"
      [] on_conflict = "replace" -> "OR REPLACE"
      [] OTHER -> ""

\* the tuple insert_transactions builds of one row of df_std
insert_row(r, batch_id) ==
    [date |-> r.date, transaction_type |-> r.transaction_type,
     amount |-> r.amount, currency |-> r.currency,
     description |-> r.description, country |-> r.country, city |-> r.city,
     import_batch_id |-> batch_id]

\* transaction_id is the key of the transactions table: the INSERT of a
\* stored id conflicts
key_conflict(db, id) == id \in DOMAIN db

\* conn.executemany(INSERT {verb} INTO transactions ...): the rows go in one
\* by one; a collision on transaction_id is resolved by the verb, and with
\* no verb the statement raises and leaves the rows before it in place
RECURSIVE executemany_insert(_, _, _, _, _)
executemany_insert(db, rows, i, v, batch_id) ==
    IF i > Len(rows) THEN [db |-> db, raised |-> FALSE]
    ELSE LET id == rows[i].transaction_id
             new == insert_row(rows[i], batch_id)
         IN  IF ~key_conflict(db, id)
             THEN executemany_insert(db @@ (id :> new), rows, i + 1, v, batch_id)
             ELSE CASE v = "OR IGNORE" ->
                         executemany_insert(db, rows, i + 1, v, batch_id)
                    [] v = "OR REPLACE" ->
                         executemany_insert([db EXCEPT ![id] = new], rows,
                                            i + 1, v, batch_id)
                    [] OTHER -> [db |-> db, raised |-> TRUE]

insert_transactions(db, df_std, batch_id, on_conflict) ==
    executemany_insert(db, df_std, 1, verb(on_conflict), batch_id)

insert_import_batch(batches, batch_id, source_file_name, row_count, status) ==
    batches @@ (batch_id :> [source_file_name |-> source_file_name,
                             row_count |-> row_count, status |-> status])

\* conn.rollback(): the tables as they were at BEGIN
rollback_nothing(at_begin, current) == current

rollback(at_begin, current) == at_begin

\* UPDATE import_batches SET status='failed' WHERE import_batch_id=?
mark_failed(batches, batch_id) ==
    IF batch_id \in DOMAIN batches
    THEN [batches EXCEPT ![batch_id].status = "failed"]
    ELSE batches

\* the except branch of main(): rollback, then the follow-up UPDATE, commit
main_except(at_begin, current, batch_id, why) ==
    LET back == rollback(at_begin, current) IN
    [batches |-> mark_failed(back.batches, batch_id), txs |-> back.txs,
     outcome |-> why]

\* main() past the dry-run return: the guard, the two inserts, the commit
main_write(batches, txs, k, on_conflict, ts) ==
    LET df_std == transform(ImportFiles[k])
        batch_id == make_batch_id(k, ts)
        at_begin == [batches |-> batches, txs |-> txs]
    IN  IF batch_id \in DOMAIN batches
        THEN main_except(at_begin, at_begin, batch_id, "batch_exists")
        ELSE LET b1 == insert_import_batch(batches, batch_id, sha256_12(k),
                                           Len(df_std), "ok")
                 ins == insert_transactions(txs, df_std, batch_id, on_conflict)
             IN  IF ins.raised
                 THEN main_except(at_begin, [batches |-> b1, txs |-> ins.db],
                                  batch_id, "collision")
                 ELSE [batches |-> b1, txs |-> ins.db, outcome |-> "ok"]

Policies == {"ignore", "replace", "abort"}

\* the counts main() prints: rows, and the summary of id types
id_summary(df_std) ==
    [rows |-> Len(df_std), natural |-> natural_count(df_std),
     synthetic |-> synthetic_count(df_std), dup |-> dup_count(df_std)]

main(k, on_conflict, dry_run) ==
    /\ \/ dry_run
       \/ make_batch_id(k, now) \in DOMAIN import_batches
       \/ Cardinality(DOMAIN import_batches) < MaxBatches
    /\ IF dry_run
       THEN /\ UNCHANGED <<import_batches, transactions>>
            /\ op' = [name |-> "import", file |-> k, dry_run |-> TRUE,
                      outcome |-> "dry",
                      printed |-> id_summary(transform(ImportFiles[k]))]
       ELSE LET r == main_write(import_batches, transactions, k, on_conflict, now)
            IN  /\ import_batches' = r.batches
                /\ transactions' = r.txs
                /\ op' = [name |-> "import", file |-> k, policy |-> on_conflict,
                          dry_run |-> FALSE, outcome |-> r.outcome,
                          batch |-> make_batch_id(k, now)]
    /\ UNCHANGED <<transaction_classifications, rules, now, call,
                   categories, sqlite_sequence>>

Import == \E k \in 1..Len(ImportFiles), pol \in Policies, dry \in BOOLEAN :
              main(k, pol, dry)

\* the imports of the statement the classification store is run over
StatementFiles == {k \in 1..Len(ImportFiles) : Len(ImportFiles[k]) > 1
                                              /\ cardA \in Range(ImportFiles[k])}

\* --on-conflict is left at its default: the statement is imported into a
\* table that holds none of its ids, where the three policies do the same
DefaultPolicy == "ignore"

ImportStatement == \E k \in StatementFiles, dry \in BOOLEAN :
                       main(k, DefaultPolicy, dry)

\* a second of the clock passes
Tick == /\ now < MaxClock
        /\ now' = now + 1
        /\ op' = [name |-> "tick"]
        /\ UNCHANGED <<import_batches, transactions,
                       transaction_classifications, rules, call,
                       categories, sqlite_sequence>>

(***************************************************************************)
(* Category resolver (backend/app/api/endpoints/transactions.py, rules.py) *)
(***************************************************************************)
\* a value Python takes for false: None or the empty string
falsy(x) == x = NULL \/ x = ""

\* SELECT c.category_id FROM categories c JOIN categories p
\*   ON c.parent_id = p.category_id WHERE c.category = ? AND p.category = ?
child_rows_any_parent(db, category, subcategory) ==
    {c \in DOMAIN db : db[c].category = subcategory /\ db[c].parent_id # NULL}

child_rows(db, category, subcategory) ==
    {c \in DOMAIN db : /\ db[c].category = subcategory
                       /\ db[c].parent_id \in DOMAIN db
                       /\ db[db[c].parent_id].category = category}

\* SELECT category_id FROM categories WHERE category = ? AND parent_id IS NULL
root_rows(db, category) ==
    {c \in DOMAIN db : db[c].category = category /\ db[c].parent_id = NULL}

\* the ids resolve_category_id can return: fetchone() takes the first row of
\* a query that has no ORDER BY
resolve_category_id(db, category, subcategory) ==
    IF falsy(category) THEN {NULL}
    ELSE LET child == IF falsy(subcategory) THEN {}
                      ELSE child_rows(db, category, subcategory)
         IN  IF child # {} THEN child
             ELSE IF root_rows(db, category) # {}
             THEN root_rows(db, category)
             ELSE {NULL}

(***************************************************************************)
(* Classification store: manual paths                                      *)
(* (backend/app/api/endpoints/transactions.py)                             *)
(***************************************************************************)
\* INSERT INTO transaction_classifications: category is a required column,
\* so a NULL category raises sqlite3.IntegrityError
insert_classification_overwrite(tc, rec) ==
    IF rec.category = NULL
    THEN [tc |-> tc, raised |-> TRUE]
    ELSE IF tc = << >>
    THEN [tc |-> <<rec>>, raised |-> FALSE]
    ELSE [tc |-> [tc EXCEPT ![Len(tc)] = rec], raised |-> FALSE]

insert_classification(tc, rec) ==
    IF rec.category = NULL
    THEN [tc |-> tc, raised |-> TRUE]
    ELSE [tc |-> Append(tc, rec), raised |-> FALSE]

\* UPDATE transaction_classifications SET is_current = 0
\*   WHERE transaction_id = ? AND is_current = 1
flip_none(tc, transaction_id) == tc

flip_current(tc, transaction_id) ==
    [i \in 1..Len(tc) |->
        IF tc[i].transaction_id = transaction_id /\ tc[i].is_current
        THEN [tc[i] EXCEPT !.is_current = FALSE]
        ELSE tc[i]]

TransactionUpdate ==
    [category : {"Other", NULL}, subcategory : {NULL}, merchant : {NULL}]

\* a transaction id no import or creation produces
MissingId == <<"404">>

categorize_transaction(transaction_id, update_data) ==
    /\ Len(transaction_classifications) < MaxRecords
    /\ IF transaction_id \notin DOMAIN transactions
       THEN /\ UNCHANGED transaction_classifications
            /\ op' = [name |-> "categorize", outcome |-> "404"]
       ELSE \E cat_id \in resolve_category_id(categories, update_data.category,
                                               update_data.subcategory) :
            LET flipped == flip_current(transaction_classifications,
                                        transaction_id)
                ins == insert_classification(flipped,
                          [transaction_id |-> transaction_id,
                           category |-> update_data.category,
                           subcategory |-> update_data.subcategory,
                           merchant |-> update_data.merchant,
                           category_id |-> cat_id,
                           method |-> "manual", rule_id |-> NULL,
                           is_current |-> TRUE])
            IN  IF ins.raised
                THEN /\ transaction_classifications' =
                            rollback(transaction_classifications, ins.tc)
                     /\ op' = [name |-> "categorize", outcome |-> "500"]
                ELSE /\ transaction_classifications' = ins.tc
                     /\ op' = [name |-> "categorize", outcome |-> "ok"]
    /\ UNCHANGED <<import_batches, transactions, rules, now, call,
                   categories, sqlite_sequence>>

Categorize ==
    \E t \in DOMAIN transactions \cup {MissingId}, u \in TransactionUpdate :
        categorize_transaction(t, u)

TransactionCreate ==
    {d \in [date : {"d1"}, transaction_type : {"card_payment"}, amount : {-5},
            currency : {"PLN"}, description : {<<"U", "B">>},
            category : {"Transport", NULL}, subcategory : {NULL},
            merchant : {"m", NULL}] :
        d.category = NULL \/ d.merchant = NULL}

\* new_id = f"manual-{sig}", sig the 8-character hash of the five fields
manual_id(tx_data) ==
    <<"manual-">>
      \o short_hash(<<tx_data.date, tx_data.transaction_type,
                      ToString(tx_data.amount), tx_data.currency>>
                      \o tx_data.description, 8)

create_transaction(tx_data) ==
    \E cat_id \in resolve_category_id(categories, tx_data.category,
                                      tx_data.subcategory) :
    LET new_id == manual_id(tx_data)
        row == [date |-> tx_data.date,
                transaction_type |-> tx_data.transaction_type,
                amount |-> tx_data.amount, currency |-> tx_data.currency,
                description |-> tx_data.description, country |-> NULL,
                city |-> NULL, import_batch_id |-> <<"manual">>]
        ins == IF tx_data.category # NULL \/ tx_data.merchant # NULL
               THEN insert_classification(transaction_classifications,
                       [transaction_id |-> new_id,
                        category |-> tx_data.category,
                        subcategory |-> tx_data.subcategory,
                        merchant |-> tx_data.merchant,
                        category_id |-> cat_id,
                        method |-> "manual", rule_id |-> NULL,
                        is_current |-> TRUE])
               ELSE [tc |-> transaction_classifications, raised |-> FALSE]
    IN  /\ Len(transaction_classifications) < MaxRecords
        /\ IF new_id \in DOMAIN transactions
           THEN /\ UNCHANGED <<transactions, transaction_classifications>>
                /\ op' = [name |-> "create", outcome |-> "409"]
           ELSE IF ins.raised
           THEN /\ UNCHANGED <<transactions, transaction_classifications>>
                /\ op' = [name |-> "create", outcome |-> "500"]
           ELSE /\ transactions' = transactions @@ (new_id :> row)
                /\ transaction_classifications' = ins.tc
                /\ op' = [name |-> "create", outcome |-> "ok"]
        /\ UNCHANGED <<import_batches, rules, now, call,
                   categories, sqlite_sequence>>

Create == \E d \in TransactionCreate : create_transaction(d)

(***************************************************************************)
(* Classification store: rule path (backend/app/services/classifier.py)    *)
(***************************************************************************)
\* the transactions with no record that has is_current = 1
load_all_transactions(txs, tc) == DOMAIN txs

load_unclassified_transactions(txs, tc) ==
    {t \in DOMAIN txs :
        ~\E i \in 1..Len(tc) : tc[i].transaction_id = t /\ tc[i].is_current}

\* the rows of a frame in the order the query returned them
RECURSIVE rows_in_order(_)
rows_in_order(S) ==
    IF S = {} THEN << >>
    ELSE LET t == CHOOSE x \in S : TRUE IN <<t>> \o rows_in_order(S \ {t})

\* the rows save_classifications keeps: rule_id set, category not null
to_save(out) ==
    {t \in DOMAIN out : out[t].rule_id # NULL /\ out[t].category # NULL}

\* the tuple save_classifications builds of one classified row; category_id
\* is not among the columns of its INSERT and stays NULL
classified_row_manual(t, row) ==
    [transaction_id |-> t, category |-> row.category,
     subcategory |-> row.subcategory, merchant |-> row.merchant,
     category_id |-> NULL,
     method |-> "manual", rule_id |-> row.rule_id, is_current |-> TRUE]

classified_row(t, row) ==
    [transaction_id |-> t, category |-> row.category,
     subcategory |-> row.subcategory, merchant |-> row.merchant,
     category_id |-> NULL,
     method |-> "rule", rule_id |-> row.rule_id, is_current |-> TRUE]

RECURSIVE executemany_classifications(_, _, _)
executemany_classifications(tc, out, order) ==
    IF order = << >> THEN tc
    ELSE executemany_classifications(
            Append(tc, classified_row(Head(order), out[Head(order)])),
            out, Tail(order))

save_classifications(tc, out) ==
    executemany_classifications(tc, out, rows_in_order(to_save(out)))

RuleInput(pattern, category, priority) ==
    [pattern |-> pattern, match_type |-> "contains",
     source_column |-> "description", merchant |-> NULL,
     category |-> category, subcategory |-> NULL,
     conditions |-> NoConditions, priority |-> priority]

RuleCreate ==
    {RuleInput(<<"u", "b">>, "Transport", 20), RuleInput(<<"u">>, "Other", 10),
     RuleInput(<<"u">>, NULL, 30)}

\* POST /rules: category_id is resolved from the names and the row is
\* inserted with it, resolved or not; the row gets the next id
create_rule(rule) ==
    /\ Len(rules) < MaxRules
    /\ \E cat_id \in resolve_category_id(categories, rule.category,
                                         rule.subcategory) :
          rules' = Append(rules,
                  [id |-> ToString(Len(rules) + 1), pattern |-> rule.pattern,
                   match_type |-> rule.match_type,
                   source_column |-> rule.source_column,
                   merchant |-> rule.merchant, category |-> rule.category,
                   subcategory |-> rule.subcategory,
                   category_id |-> cat_id,
                   conditions |-> rule.conditions,
                   priority |-> rule.priority])
    /\ op' = [name |-> "create_rule"]
    /\ UNCHANGED <<import_batches, transactions, transaction_classifications,
                   now, call,
                   categories, sqlite_sequence>>

CreateRule == \E r \in RuleCreate : create_rule(r)

(***************************************************************************)
(* Rule loader (backend/app/services/rules_manager.py)                     *)
(***************************************************************************)
\* the loader's own copy of the resolution: the fallback to the root is
\* taken `if not category_id`
loader_category_id(db, category, subcategory) ==
    IF falsy(category) THEN {NULL}
    ELSE LET child == IF falsy(subcategory) THEN {}
                      ELSE child_rows(db, category, subcategory)
             first == IF child = {} THEN {NULL} ELSE child
             root == IF root_rows(db, category) = {} THEN {NULL}
                     ELSE root_rows(db, category)
         IN  UNION {IF c = NULL \/ c = "0" THEN root ELSE {c} : c \in first}

\* a row of the csv file of rules, "" for an empty cell
RuleCsvRow(pattern, category, subcategory) ==
    [pattern |-> pattern, match_type |-> "contains",
     source_column |-> "description", merchant |-> "", category |-> category,
     subcategory |-> subcategory, conditions |-> "", priority |-> "10"]

RuleFiles ==
    {<<RuleCsvRow(<<"u">>, "Other", "")>>,
     <<RuleCsvRow(<<"u">>, "Transport", "Taxi")>>,
     <<RuleCsvRow(<< >>, "Other", "")>>}

\* `x.strip() or None`
or_none(x) == IF x = "" THEN NULL ELSE x

\* the loop over the rows of the csv file: a row without pattern, match_type
\* or source_column is skipped, every other row is inserted
RECURSIVE load_rule_rows(_, _, _, _)
load_rule_rows(db, rs, rows, i) ==
    IF i > Len(rows) THEN {rs}
    ELSE IF rows[i].pattern = << >> \/ rows[i].match_type = ""
            \/ rows[i].source_column = ""
    THEN load_rule_rows(db, rs, rows, i + 1)
    ELSE UNION {load_rule_rows(db,
                    Append(rs,
                        [id |-> ToString(Len(rs) + 1),
                         pattern |-> rows[i].pattern,
                         match_type |-> rows[i].match_type,
                         source_column |-> rows[i].source_column,
                         merchant |-> or_none(rows[i].merchant),
                         category |-> or_none(rows[i].category),
                         subcategory |-> or_none(rows[i].subcategory),
                         category_id |-> cat_id,
                         conditions |-> NoConditions,
                         priority |-> 10]),
                    rows, i + 1) :
                cat_id \in loader_category_id(db, or_none(rows[i].category),
                                              or_none(rows[i].subcategory))}

\* manage.py load-rules: BEGIN, load_rules_from_csv, commit
load_rules_from_csv(rows, clear_existing) ==
    /\ \E rs \in load_rule_rows(categories,
                                IF clear_existing THEN << >> ELSE rules,
                                rows, 1) :
          /\ Len(rs) <= MaxRules
          /\ rules' = rs
    /\ op' = [name |-> "load_rules"]
    /\ UNCHANGED <<import_batches, transactions, transaction_classifications,
                   now, call, categories, sqlite_sequence>>

LoadRules ==
    \E f \in RuleFiles, clear \in BOOLEAN : load_rules_from_csv(f, clear)

\* the table after run_classification: a dry run returns before the save
committed_dry_too(dry_run, classified_count, tc, saved) ==
    IF classified_count > 0 THEN saved ELSE tc

committed(dry_run, classified_count, tc, saved) ==
    IF ~dry_run /\ classified_count > 0 THEN saved ELSE tc

\* the ids of the rules in the order the run iterated them
rule_order(dfr) == [i \in 1..Len(dfr) |-> dfr[i].id]

\* the operation just before this one was a non-dry run that got through and
\* iterated the rules in this order: sort_values is a function of the frame
\* it is given, so two runs over one rule table iterate it alike
same_run_before(order) ==
    /\ op.name = "classify"
    /\ op.status = "ran"
    /\ ~op.dry_run
    /\ op.order = order

run_classification(dry_run) ==
    LET df == load_unclassified_transactions(transactions,
                                             transaction_classifications)
        dft == [t \in df |-> transactions[t]]
    IN  /\ IF df = {}
           THEN /\ UNCHANGED transaction_classifications
                /\ op' = [name |-> "classify", dry_run |-> dry_run,
                          status |-> "no_transactions"]
           ELSE IF \E i \in 1..Len(rules) : rule_raises(rules[i])
           THEN /\ UNCHANGED transaction_classifications
                /\ op' = [name |-> "classify", dry_run |-> dry_run,
                          status |-> "raised"]
           ELSE \E dfr \in sorted_by_priority(rules) :
                  LET out == apply_rules(dft, dfr)
                      classified_count ==
                          Cardinality({t \in df : out[t].rule_id # NULL})
                      saved == save_classifications(
                                   transaction_classifications, out)
                  IN  /\ Len(saved) <= MaxRecords
                      /\ transaction_classifications' =
                            committed(dry_run, classified_count,
                                      transaction_classifications, saved)
                      /\ op' = [name |-> "classify", dry_run |-> dry_run,
                                status |-> "ran",
                                found |-> Cardinality(df),
                                classified |-> classified_count,
                                unclassified |->
                                    Cardinality(df) - classified_count,
                                order |-> rule_order(dfr),
                                repeat |-> /\ ~dry_run
                                           /\ same_run_before(rule_order(dfr))]
        /\ UNCHANGED <<import_batches, transactions, rules, now, call,
                   categories, sqlite_sequence>>

Classify == \E dry \in BOOLEAN : run_classification(dry)

(***************************************************************************)
(* Category tree (backend/app/api/endpoints/categories.py,                 *)
(* backend/app/services/categories_manager.py)                             *)
(***************************************************************************)
CategoryNames == {"Food", "food", "Fruit"}

\* a category id no insert gives out
MissingCategory == "404"

\* UNIQUE(name, parent_id): SQLite takes NULLs for distinct, so two rows with
\* a NULL parent_id never conflict
unique_conflict(db, name, parent_id, self) ==
    /\ parent_id # NULL
    /\ \E c \in DOMAIN db \ {self} :
          db[c].category = name /\ db[c].parent_id = parent_id

\* INSERT INTO categories (category, parent_id): the row gets the next id
insert_category(db, seq, name, parent_id) ==
    [db |-> db @@ (ToString(seq + 1) :>
                     [category |-> name, parent_id |-> parent_id]),
     seq |-> seq + 1]

\* the rows the duplicate check of create_category finds
existing_any_parent(db, name, parent_id) ==
    {c \in DOMAIN db : db[c].category = name}

existing(db, name, parent_id) ==
    {c \in DOMAIN db : db[c].category = name /\ db[c].parent_id = parent_id}

category_unchanged(name, outcome) ==
    /\ UNCHANGED <<categories, sqlite_sequence>>
    /\ op' = [name |-> name, outcome |-> outcome]

\* the parent is looked up `if category.parent_id`: None and 0 skip the check
create_category(category, parent_id) ==
    /\ sqlite_sequence < MaxCategories
    /\ IF parent_id \notin {NULL, "0"} /\ parent_id \notin DOMAIN categories
       THEN category_unchanged("create_category", "400")
       ELSE IF existing(categories, category, parent_id) # {}
       THEN category_unchanged("create_category", "400")
       ELSE IF unique_conflict(categories, category, parent_id, NULL)
       THEN category_unchanged("create_category", "400")
       ELSE LET ins == insert_category(categories, sqlite_sequence, category,
                                       parent_id)
            IN  /\ categories' = ins.db
                /\ sqlite_sequence' = ins.seq
                /\ op' = [name |-> "create_category", outcome |-> "ok"]
    /\ UNCHANGED <<import_batches, transactions, transaction_classifications,
                   rules, now, call>>

CreateCategory ==
    \E n \in CategoryNames,
       p \in DOMAIN categories \cup {NULL, MissingCategory, "0"} :
        create_category(n, p)

update_category(category_id, category) ==
    /\ IF category_id \notin DOMAIN categories
       THEN category_unchanged("update_category", "404")
       ELSE IF unique_conflict(categories, category,
                               categories[category_id].parent_id, category_id)
       THEN category_unchanged("update_category", "400")
       ELSE /\ categories' = [categories EXCEPT
                                ![category_id].category = category]
            /\ UNCHANGED sqlite_sequence
            /\ op' = [name |-> "update_category", outcome |-> "ok"]
    /\ UNCHANGED <<import_batches, transactions, transaction_classifications,
                   rules, now, call>>

UpdateCategory ==
    \E c \in DOMAIN categories \cup {MissingCategory}, n \in CategoryNames :
        update_category(c, n)

\* DELETE FROM categories WHERE category_id = ?
delete_row(db, category_id) ==
    IF DOMAIN db = {category_id} THEN << >>
    ELSE [c \in DOMAIN db \ {category_id} |-> db[c]]

delete_category(category_id) ==
    /\ IF category_id \notin DOMAIN categories
       THEN category_unchanged("delete_category", "404")
       ELSE IF \E c \in DOMAIN categories :
                  categories[c].parent_id = category_id
       THEN category_unchanged("delete_category", "400")
       ELSE IF \E i \in 1..Len(transaction_classifications) :
                  transaction_classifications[i].category_id = category_id
       THEN category_unchanged("delete_category", "400")
       ELSE /\ categories' = delete_row(categories, category_id)
            /\ UNCHANGED sqlite_sequence
            /\ op' = [name |-> "delete_category", outcome |-> "ok"]
    /\ UNCHANGED <<import_batches, transactions, transaction_classifications,
                   rules, now, call>>

DeleteCategory ==
    \E c \in DOMAIN categories \cup {MissingCategory} : delete_category(c)

\* the csv files of categories: rows of category,subcategory, "" for an empty
\* cell
CsvRow(category, subcategory) ==
    [category |-> category, subcategory |-> subcategory]

CategoryFiles ==
    {<<CsvRow("Food", "Fruit")>>,
     <<CsvRow("Food", ""), CsvRow("food", "Fruit")>>,
     <<CsvRow("", "Fruit"), CsvRow("Food", "Fruit")>>}

\* parent_cache after the pre-load: a root name maps to the id of the row of
\* that name that was fetched last
parent_caches(db) ==
    LET names == {db[c].category : c \in {d \in DOMAIN db :
                                             db[d].parent_id = NULL}}
    IN  {f \in [names -> DOMAIN db] : \A n \in names : f[n] \in root_rows(db, n)}

\* the loop over the rows of the csv file
RECURSIVE load_rows(_, _, _, _, _)
load_rows(db, seq, cache, rows, i) ==
    IF i > Len(rows) THEN [db |-> db, seq |-> seq]
    ELSE IF rows[i].category = ""
    THEN load_rows(db, seq, cache, rows, i + 1)
    ELSE LET category == rows[i].category
             subcategory == rows[i].subcategory
             hit == category \in DOMAIN cache
             p == IF hit THEN [db |-> db, seq |-> seq]
                  ELSE insert_category(db, seq, category, NULL)
             parent_id == IF hit THEN cache[category] ELSE ToString(seq + 1)
             cache2 == IF hit THEN cache ELSE cache @@ (category :> parent_id)
             c == IF subcategory = ""
                     \/ unique_conflict(p.db, subcategory, parent_id, NULL)
                  THEN p
                  ELSE insert_category(p.db, p.seq, subcategory, parent_id)
         IN  load_rows(c.db, c.seq, cache2, rows, i + 1)

\* The statements of the loader name the columns name and id, those of the
\* endpoints category and category_id: on a table of the endpoints' columns
\* the loader raises and is rolled back, on a table of its own columns it
\* runs as written.
load_categories_from_csv(rows, clear_existing) ==
    /\ \/ category_unchanged("load_categories", "raised")
       \/ \E cache \in IF clear_existing THEN {<< >>}
                        ELSE parent_caches(categories) :
             LET r == load_rows(IF clear_existing THEN << >> ELSE categories,
                                sqlite_sequence, cache, rows, 1)
             IN  /\ r.seq <= MaxCategories
                 /\ categories' = r.db
                 /\ sqlite_sequence' = r.seq
                 /\ op' = [name |-> "load_categories", outcome |-> "ok"]
    /\ UNCHANGED <<import_batches, transactions, transaction_classifications,
                   rules, now, call>>

LoadCategories ==
    \E f \in CategoryFiles, clear \in BOOLEAN : load_categories_from_csv(f, clear)

\* a call of resolve_category_id
Resolve ==
    \E category \in CategoryNames \cup {NULL},
       subcategory \in CategoryNames \cup {NULL, ""} :
        \E cat_id \in resolve_category_id(categories, category, subcategory) :
            /\ op' = [name |-> "resolve", category |-> category,
                      subcategory |-> subcategory, cat_id |-> cat_id]
            /\ UNCHANGED <<import_batches, transactions,
                           transaction_classifications, rules, categories,
                           sqlite_sequence, now, call>>

(***************************************************************************)
(* Specification: the operations, one at a time                            *)
(***************************************************************************)
EmptyTables ==
    /\ import_batches = << >>
    /\ transactions = << >>
    /\ transaction_classifications = << >>
    /\ rules = << >>
    /\ categories = << >>
    /\ sqlite_sequence = 0
    /\ now = 0
    /\ op = [name |-> "init"]

Init ==
    /\ EmptyTables
    /\ call = [fn |-> "none"]

Next == ImportStatement \/ Categorize \/ Create \/ CreateRule \/ Classify

Spec == Init /\ [][Next]_vars

(***************************************************************************)
(* Specification: the batch loader alone, over every file                  *)
(***************************************************************************)
NextLoader == Import \/ Tick

SpecLoader == Init /\ [][NextLoader]_vars

(***************************************************************************)
(* Specification: the category tree and its resolver                       *)
(***************************************************************************)
NextCategories ==
    CreateCategory \/ UpdateCategory \/ DeleteCategory \/ LoadCategories
      \/ Resolve

SpecCategories == Init /\ [][NextCategories]_vars

(***************************************************************************)
(* Specification: transform, pass by pass, over every file of at most      *)
(* MaxRows rows                                                            *)
(***************************************************************************)
Files == UNION {[1..n -> RawRows] : n \in 0..MaxRows}

InitTransform ==
    /\ EmptyTables
    /\ call \in {[fn |-> "transform", df |-> f, pc |-> "extract",
                  df_std |-> << >>] : f \in Files}

TablesUnchanged ==
    UNCHANGED <<import_batches, transactions, transaction_classifications,
                rules, categories, sqlite_sequence, now, op>>

\* the per-type branches
Extract ==
    /\ call.fn = "transform" /\ call.pc = "extract"
    /\ call' = [call EXCEPT !.pc = "fill_missing", !.df_std = extract(call.df)]
    /\ TablesUnchanged

\* pass 1
FillMissing ==
    /\ call.fn = "transform" /\ call.pc = "fill_missing"
    /\ call' = [call EXCEPT !.pc = "dedup", !.df_std = fill_missing(call.df_std)]
    /\ TablesUnchanged

\* pass 2
Dedup ==
    /\ call.fn = "transform" /\ call.pc = "dedup"
    /\ call' = [call EXCEPT !.pc = "return", !.df_std = dedup(call.df_std)]
    /\ TablesUnchanged

NextTransform == Extract \/ FillMissing \/ Dedup

SpecTransform == InitTransform /\ [][NextTransform]_vars

(***************************************************************************)
(* Specification: apply_rules, rule by rule                                *)
(***************************************************************************)
EngineRule(match_type, pattern, category, conditions, priority) ==
    [pattern |-> pattern, match_type |-> match_type,
     source_column |-> "description", merchant |-> NULL,
     category |-> category, subcategory |-> NULL,
     conditions |-> conditions, priority |-> priority]

EngineRules ==
    {EngineRule("contains", <<"u", "b">>, "Transport", NoConditions, 20),
     EngineRule("contains", <<"u">>, "Other", NoConditions, 10),
     EngineRule("regex", <<".">>, "Other", NoConditions, 20),
     EngineRule("regex", <<"(">>, "Other", NoConditions, 20),
     EngineRule("contains", <<"u">>, NULL,
                ConditionSpec({"amount_sign"}, 0, 0, "negative"), 20),
     EngineRule("contains", <<"u">>, "Other", Malformed, 10),
     EngineRule("contains", <<"u">>, "Other", NotAnObject, 20)}

\* a rules table: the rows get their ids in insertion order
RuleTables ==
    UNION {{[i \in 1..n |->
                [id |-> ToString(i), pattern |-> rs[i].pattern,
                 match_type |-> rs[i].match_type,
                 source_column |-> rs[i].source_column,
                 merchant |-> rs[i].merchant, category |-> rs[i].category,
                 subcategory |-> rs[i].subcategory,
                 conditions |-> rs[i].conditions,
                 priority |-> rs[i].priority]] :
             rs \in [1..n -> EngineRules]} : n \in 0..MaxRules}

EngineRows ==
    [date : {"d1"}, transaction_type : {"card_payment"}, amount : {-5, 5},
     currency : {"PLN"}, description : {<<"U", "B">>, <<"X">>},
     country : {NULL}, city : {NULL}, import_batch_id : {<<"manual">>}]

EngineIds == {<<"t1">>, <<"t2">>}

InitRules ==
    /\ EmptyTables
    /\ call \in {[fn |-> "apply_rules", dft |-> d, rules |-> rs, pc |-> "sort",
                  dfr |-> << >>, k |-> 1,
                  out |-> [t \in EngineIds |-> Unassigned]] :
                 d \in [EngineIds -> EngineRows], rs \in RuleTables}

\* dfr = dfr.sort_values("priority", ascending=False)
SortRules ==
    /\ call.fn = "apply_rules" /\ call.pc = "sort"
    /\ \E dfr \in sorted_by_priority(call.rules) :
          call' = [call EXCEPT !.pc = "loop", !.dfr = dfr]
    /\ TablesUnchanged

\* one iteration of `for _, rule in dfr.iterrows()`
RuleStep ==
    /\ call.fn = "apply_rules" /\ call.pc = "loop"
    /\ call.k <= Len(call.dfr)
    /\ call' = IF rule_raises(call.dfr[call.k])
               THEN [call EXCEPT !.pc = "raised"]
               ELSE [call EXCEPT !.k = call.k + 1,
                                 !.out = apply_rule(call.dft, call.out,
                                                    call.dfr[call.k])]
    /\ TablesUnchanged

\* return dft
ReturnRules ==
    /\ call.fn = "apply_rules" /\ call.pc = "loop"
    /\ call.k > Len(call.dfr)
    /\ call' = [call EXCEPT !.pc = "return"]
    /\ TablesUnchanged

NextRules == SortRules \/ RuleStep \/ ReturnRules

SpecRules == InitRules /\ [][NextRules]_vars

(***************************************************************************)
(* Specification: apply_conditions on one row                              *)
(***************************************************************************)
ConditionAmounts == {-51, -50, -49, -1, 0, 1, 49, 50, 51}

ConditionSpecs ==
    {ConditionSpec(keys, -50, hi, sign) :
        keys \in SUBSET {"min_amount", "max_amount", "amount_range",
                         "amount_sign"},
        hi \in {-1, 50}, sign \in {"negative", "positive", "any"}}

ConditionTexts ==
    {<< >>, << <<"u">> >>, << <<".">> >>, << <<"(">> >>,
     << <<"u">>, <<"x">> >>}

\* "note" is a key apply_conditions does not know
TextSpecs ==
    {TextSpec(keys, values) :
        keys \in SUBSET {"not_contains", "must_contain_any",
                         "must_contain_all", "note"},
        values \in ConditionTexts}

ConditionDescriptions == {<<"U", "B">>, <<"X">>}

InitConditions ==
    /\ EmptyTables
    /\ call \in {[fn |-> "apply_conditions", mask |-> m,
                  row |-> [amount |-> a, description |-> <<"X">>],
                  conditions |-> c, pc |-> "call", result |-> m] :
                 m \in BOOLEAN, a \in ConditionAmounts,
                 c \in ConditionSpecs \cup {NoConditions}}
             \cup
               {[fn |-> "apply_conditions", mask |-> m,
                  row |-> [amount |-> -5, description |-> d],
                  conditions |-> c, pc |-> "call", result |-> m] :
                 m \in BOOLEAN, d \in ConditionDescriptions,
                 c \in TextSpecs}

ApplyConditions ==
    /\ call.fn = "apply_conditions" /\ call.pc = "call"
    /\ call' = IF conditions_raise(call.conditions)
               THEN [call EXCEPT !.pc = "raised"]
               ELSE [call EXCEPT !.pc = "return",
                                 !.result = apply_conditions(call.mask,
                                                call.row, call.conditions)]
    /\ TablesUnchanged

NextConditions == ApplyConditions

SpecConditions == InitConditions /\ [][NextConditions]_vars

(***************************************************************************)
(* Specification: rule runs of separate processes, each followed from its  *)
(* reads to its write transaction, interleaved with the API                *)
(***************************************************************************)
\* the processes that run `manage.py classify` on the one database file
Runners == {"cli1", "cli2"}

InitConcurrent ==
    /\ EmptyTables
    /\ call = [fn |-> "run_classification",
               frames |-> [p \in Runners |-> [pc |-> "idle"]]]

\* run_classification up to the dry_run test: the unclassified set and the
\* rules are read and the engine is run before any transaction is opened
run_read(p) ==
    LET df == load_unclassified_transactions(transactions,
                                             transaction_classifications)
        dft == [t \in df |-> transactions[t]]
    IN  /\ call.fn = "run_classification"
        /\ call.frames[p].pc = "idle"
        /\ IF df = {}
           THEN /\ UNCHANGED call
                /\ op' = [name |-> "run_read", runner |-> p,
                          status |-> "no_transactions"]
           ELSE IF \E i \in 1..Len(rules) : rule_raises(rules[i])
           THEN /\ UNCHANGED call
                /\ op' = [name |-> "run_read", runner |-> p,
                          status |-> "raised"]
           ELSE /\ \E dfr \in sorted_by_priority(rules) :
                      call' = [call EXCEPT !.frames[p] =
                                  [pc |-> "save",
                                   out |-> apply_rules(dft, dfr)]]
                /\ op' = [name |-> "run_read", runner |-> p,
                          status |-> "read"]
        /\ UNCHANGED <<import_batches, transactions,
                       transaction_classifications, rules, categories,
                       sqlite_sequence, now>>

RunRead == \E p \in Runners : run_read(p)

\* the rest of run_classification: BEGIN, save_classifications, commit, on
\* the table as it is by then
run_write(p) ==
    /\ call.fn = "run_classification"
    /\ call.frames[p].pc = "save"
    /\ LET out == call.frames[p].out
           classified_count ==
               Cardinality({t \in DOMAIN out : out[t].rule_id # NULL})
           saved == save_classifications(transaction_classifications, out)
       IN  /\ Len(saved) <= MaxRecords
           /\ transaction_classifications' =
                 committed(FALSE, classified_count,
                           transaction_classifications, saved)
           /\ op' = [name |-> "run_write", runner |-> p,
                     classified |-> classified_count]
    /\ call' = [call EXCEPT !.frames[p] = [pc |-> "idle"]]
    /\ UNCHANGED <<import_batches, transactions, rules, categories,
                   sqlite_sequence, now>>

RunWrite == \E p \in Runners : run_write(p)

NextConcurrent == Create \/ CreateRule \/ Categorize \/ RunRead \/ RunWrite

SpecConcurrent == InitConcurrent /\ [][NextConcurrent]_vars

(***************************************************************************)
(* Specification: the paths that store a category_id, over a tree that has *)
(* the root "Other"                                                        *)
(***************************************************************************)
CreateRootCategory == create_category("Other", NULL)

NextResolution ==
    CreateRootCategory \/ Create \/ CreateRule \/ LoadRules \/ Categorize
      \/ Classify

SpecResolution == Init /\ [][NextResolution]_vars

(***************************************************************************)
(* Properties                                                              *)
(***************************************************************************)
\* the positions of the current records of transaction t
current_of(tc, t) ==
    {i \in 1..Len(tc) : tc[i].transaction_id = t /\ tc[i].is_current}

\* the records of transaction t, each with its position
records_of(tc, t) ==
    {<<i, tc[i]>> : i \in {j \in 1..Len(tc) : tc[j].transaction_id = t}}

\* the rows of the rules table that match transaction row
matching(rs, row) == {i \in 1..Len(rs) : rule_mask(rs[i], row)}

\* C1: after any sequence of imports, manual creations, manual
\* categorizations and rule runs, a transaction id has at most one
\* classification record with is_current set.
C1_AtMostOneCurrent ==
    \A i \in 1..Len(transaction_classifications) :
        Cardinality(current_of(transaction_classifications,
            transaction_classifications[i].transaction_id)) <= 1

\* a manual categorization has replaced an earlier current record
C1_Witness ==
    /\ op.name = "categorize" /\ op.outcome = "ok"
    /\ \E i, j \in 1..Len(transaction_classifications) :
          /\ i < j
          /\ transaction_classifications[i].transaction_id
                = transaction_classifications[j].transaction_id
          /\ ~transaction_classifications[i].is_current
          /\ transaction_classifications[j].is_current

\* C2: a rule run leaves every record of a transaction that had a current
\* classification before the run as it was, and adds none for it, whatever
\* the rules are.
C2_RunLeavesClassifiedUntouched ==
    [][op'.name = "classify" =>
          \A t \in DOMAIN transactions :
              current_of(transaction_classifications, t) # {} =>
                  records_of(transaction_classifications', t)
                    = records_of(transaction_classifications, t)]_vars

\* a run has written record j by a rule c; record i, of an earlier run,
\* is still the current one of its transaction, although a rule b that was
\* there at the later run, of higher priority than i's rule, matches it
C2_Witness ==
    /\ op.name = "classify" /\ ~op.dry_run
    /\ \E i, j \in 1..Len(transaction_classifications),
          a, b, c \in 1..Len(rules) :
          /\ i < j /\ a < b /\ b <= c
          /\ transaction_classifications[j].rule_id = rules[c].id
          /\ transaction_classifications[i].is_current
          /\ transaction_classifications[i].rule_id = rules[a].id
          /\ rules[b].priority > rules[a].priority
          /\ rules[b].category # NULL
          /\ rule_mask(rules[b],
                transactions[transaction_classifications[i].transaction_id])

\* C3: within one apply_rules run a row whose rule_id is set keeps its
\* rule_id, category, subcategory and merchant through every later rule.
C3_AssignedOnce ==
    [][\A t \in EngineIds :
          call.out[t].rule_id # NULL => call'.out[t] = call.out[t]]_vars

\* the run is over, and a row that two rules match carries the first one
C3_Witness ==
    /\ call.fn = "apply_rules" /\ call.pc = "return"
    /\ \E t \in EngineIds, i, j \in 1..Len(call.dfr) :
          /\ i < j
          /\ rule_mask(call.dfr[i], call.dft[t])
          /\ rule_mask(call.dfr[j], call.dft[t])
          /\ call.out[t].rule_id = call.dfr[i].id

\* C4: a record a rule run commits carries the rule_id and the category of
\* a rule that matches the transaction and that no matching rule exceeds in
\* priority, whatever the order the rules are stored in.
C4_HigherPriorityWins ==
    [][op'.name = "classify" =>
          \A i \in (Len(transaction_classifications) + 1)
                      ..Len(transaction_classifications') :
              LET rec == transaction_classifications'[i]
                  row == transactions[rec.transaction_id]
              IN  \E a \in matching(rules, row) :
                      /\ rec.rule_id = rules[a].id
                      /\ rec.category = rules[a].category
                      /\ rec.method = "rule"
                      /\ \A b \in matching(rules, row) :
                            rules[b].priority <= rules[a].priority]_vars

\* the last record is the record of a rule that is stored after a rule of
\* lower priority that matches the transaction too
C4_Witness ==
    /\ op.name = "classify" /\ ~op.dry_run
    /\ Len(transaction_classifications) > 0
    /\ LET rec == transaction_classifications[Len(transaction_classifications)]
       IN  \E a, b \in 1..Len(rules) :
              /\ rec.rule_id = rules[b].id
              /\ a < b
              /\ rules[a].priority < rules[b].priority
              /\ rule_mask(rules[a], transactions[rec.transaction_id])

\* a batch of the file was committed by an earlier import
imported_before(batches, k) ==
    \E b \in DOMAIN batches : b[1] = sha256_12(k)

\* C5: importing, under the ignore policy, a file of which an import was
\* committed before adds no transaction and changes none.
C5_ReimportAddsNothing ==
    [][(/\ op'.name = "import" /\ ~op'.dry_run
        /\ op'.policy = "ignore"
        /\ imported_before(import_batches, op'.file))
          => transactions' = transactions]_vars

\* a second import of a file under ignore has gone through
C5_Witness ==
    /\ op.name = "import" /\ op.outcome = "ok" /\ op.policy = "ignore"
    /\ \E b \in DOMAIN import_batches :
          b # op.batch /\ b[1] = sha256_12(op.file)

\* C7: two distinct rows of one file that share an id before the dedup pass
\* have distinct ids, both with a "-dup-" suffix, after it.
C7_DedupSeparates ==
    [][(call.fn = "transform" /\ call.pc = "dedup" /\ call'.pc = "return") =>
          \A i, j \in 1..Len(call.df) :
              (/\ call.df[i] # call.df[j]
               /\ call.df_std[i].transaction_id = call.df_std[j].transaction_id)
                => /\ call'.df_std[i].transaction_id
                        # call'.df_std[j].transaction_id
                   /\ "-dup-" \in Range(call'.df_std[i].transaction_id)
                   /\ "-dup-" \in Range(call'.df_std[j].transaction_id)]_vars

\* C8: an import whose batch id exists leaves import_batches and
\* transactions as they were.
C8_DuplicateBatchWritesNothing ==
    [][(op'.name = "import" /\ op'.outcome = "batch_exists") =>
          /\ import_batches' = import_batches
          /\ transactions' = transactions]_vars

\* C9: after an import that failed on a collision under abort,
\* import_batches holds a row of that batch with status "failed".
C9_FailedBatchVisible ==
    (op.name = "import" /\ op.outcome = "collision") =>
        /\ op.batch \in DOMAIN import_batches
        /\ import_batches[op.batch].status = "failed"

\* a row of the batch collides with a stored transaction or with another
\* row of the batch
collides(df_std, txs) ==
    \E i \in 1..Len(df_std) :
        \/ df_std[i].transaction_id \in DOMAIN txs
        \/ \E j \in 1..Len(df_std) :
              j # i /\ df_std[j].transaction_id = df_std[i].transaction_id

\* C10: under abort, an import of which a row collides, wherever the row is
\* in the batch, leaves the transactions table as it was.
C10_AbortPersistsNothing ==
    [][(/\ op'.name = "import" /\ ~op'.dry_run
        /\ op'.policy = "abort"
        /\ collides(transform(ImportFiles[op'.file]), transactions))
          => transactions' = transactions]_vars

\* the import failed on a row that comes after a row it had inserted
C10_Witness ==
    /\ op.name = "import" /\ op.outcome = "collision"
    /\ LET df_std == transform(ImportFiles[op.file])
       IN  /\ Len(df_std) > 1
           /\ df_std[1].transaction_id \notin DOMAIN transactions
           /\ df_std[2].transaction_id \in DOMAIN transactions

\* C11: a step of the classification store deletes no record and changes no
\* field of a record but is_current; a manual categorization adds one
\* record, which is then the only current record of its transaction, and
\* the record that was current before it is kept, with is_current false.
C11_AppendOnly ==
    [][LET old == transaction_classifications
           new == transaction_classifications'
       IN  /\ Len(new) >= Len(old)
           /\ \A i \in 1..Len(old) :
                 [new[i] EXCEPT !.is_current = old[i].is_current] = old[i]
           /\ (op'.name = "categorize" /\ op'.outcome = "ok") =>
                 /\ Len(new) = Len(old) + 1
                 /\ new[Len(new)].is_current
                 /\ current_of(new, new[Len(new)].transaction_id) = {Len(new)}
                 /\ \A i \in current_of(old, new[Len(new)].transaction_id) :
                       ~new[i].is_current]_vars

\* a manual categorization has taken the place of a record a rule run wrote
C11_Witness ==
    /\ op.name = "categorize" /\ op.outcome = "ok"
    /\ \E i, j \in 1..Len(transaction_classifications) :
          /\ i < j
          /\ transaction_classifications[i].transaction_id
                = transaction_classifications[j].transaction_id
          /\ transaction_classifications[i].method = "rule"
          /\ ~transaction_classifications[i].is_current
          /\ transaction_classifications[j].method = "manual"
          /\ transaction_classifications[j].is_current

\* the ids of the stored rules
rule_ids(rs) == {rs[i].id : i \in 1..Len(rs)}

\* C12: a classification record has a rule_id if and only if its method is
\* "rule"; a rule run writes records of method "rule" with the id of a
\* stored rule, a manual categorization and a manual creation write records
\* of method "manual" with no rule_id.
C12_RuleIdIffRule ==
    /\ [](\A i \in 1..Len(transaction_classifications) :
            transaction_classifications[i].rule_id # NULL
              <=> transaction_classifications[i].method = "rule")
    /\ [][\A i \in (Len(transaction_classifications) + 1)
                      ..Len(transaction_classifications') :
            LET rec == transaction_classifications'[i]
            IN  /\ op'.name = "classify" =>
                      rec.method = "rule" /\ rec.rule_id \in rule_ids(rules)
                /\ op'.name \in {"categorize", "create"} =>
                      rec.method = "manual" /\ rec.rule_id = NULL]_vars

\* the table holds a record of each method
C12_Witness ==
    \E i, j \in 1..Len(transaction_classifications) :
        /\ transaction_classifications[i].method = "rule"
        /\ transaction_classifications[i].rule_id \in rule_ids(rules)
        /\ transaction_classifications[j].method = "manual"
        /\ transaction_classifications[j].rule_id = NULL

\* C13: resolve_category_id returns a node named subcategory whose parent is
\* named category when there is one; otherwise a root node (parent null)
\* named category when there is one; otherwise no id.  Names match exactly,
\* case included.
C13_ResolveOrder ==
    op.name = "resolve" =>
        LET children == {c \in DOMAIN categories :
                            /\ categories[c].category = op.subcategory
                            /\ \E p \in DOMAIN categories :
                                  /\ categories[c].parent_id = p
                                  /\ categories[p].category = op.category}
            roots == {c \in DOMAIN categories :
                         /\ categories[c].category = op.category
                         /\ categories[c].parent_id = NULL}
        IN  IF children # {} THEN op.cat_id \in children
            ELSE IF roots # {} THEN op.cat_id \in roots
            ELSE op.cat_id = NULL

\* a node of the subcategory's name exists, but under a parent of another
\* name, and the call has fallen back to the root of the category's name
C13_Witness ==
    /\ op.name = "resolve"
    /\ op.cat_id \in DOMAIN categories
    /\ categories[op.cat_id].parent_id = NULL
    /\ categories[op.cat_id].category = op.category
    /\ \E c \in DOMAIN categories :
          /\ categories[c].category = op.subcategory
          /\ categories[c].parent_id \in DOMAIN categories
          /\ categories[categories[c].parent_id].category # op.category

\* C18: no two category nodes have the same name and the same parent_id,
\* two roots of one name included.
C18_NameParentUnique ==
    \A a, b \in DOMAIN categories :
        (/\ categories[a].category = categories[b].category
         /\ categories[a].parent_id = categories[b].parent_id) => a = b

\* C19: every node with a parent_id has a parent that exists and is a root.
C19_TwoLevels ==
    \A c \in DOMAIN categories :
        categories[c].parent_id # NULL =>
            /\ categories[c].parent_id \in DOMAIN categories
            /\ categories[categories[c].parent_id].parent_id = NULL

\* C14: on an all-true mask, {"min_amount": -50, "amount_sign": "negative"}
\* selects the amounts a with -50 <= a < 0 and no other; min_amount,
\* max_amount and amount_range include their bounds, amount_sign excludes 0.
C14_AmountBounds ==
    (call.fn = "apply_conditions" /\ call.pc = "return" /\ call.mask
       /\ call.conditions.kind = "spec") =>
        LET c == call.conditions
            a == call.row.amount
            sel == call.result
        IN  /\ (c.keys = {"min_amount", "amount_sign"}
                  /\ c.min_amount = -50 /\ c.amount_sign = "negative")
                  => (sel <=> a \in -50..-1)
            /\ c.keys = {"min_amount"} => (sel <=> a \in c.min_amount..51)
            /\ c.keys = {"max_amount"} => (sel <=> a \in -51..c.max_amount)
            /\ c.keys = {"amount_range"}
                  => (sel <=> a \in c.amount_range[1]..c.amount_range[2])
            /\ (c.keys = {"amount_sign"} /\ c.amount_sign = "negative")
                  => (sel <=> a \in -51..-1)
            /\ (c.keys = {"amount_sign"} /\ c.amount_sign = "positive")
                  => (sel <=> a \in 1..51)

\* the spec of the claim has selected the amount on its lower bound
C14_Witness ==
    /\ call.fn = "apply_conditions" /\ call.pc = "return" /\ call.mask
    /\ call.conditions.kind = "spec"
    /\ call.conditions.keys = {"min_amount", "amount_sign"}
    /\ call.conditions.min_amount = -50
    /\ call.conditions.amount_sign = "negative"
    /\ call.row.amount = -50
    /\ call.result

\* the rule cannot be evaluated: its regex does not compile, or its
\* conditions are not a condition spec
cannot_evaluate(rule) ==
    \/ rule.match_type = "regex" /\ ~valid_regex(rule.pattern)
    \/ rule.conditions.kind \notin {"null", "spec"}

\* C15: the iteration of a rule that cannot be evaluated assigns no row and
\* goes on to the next rule; it never ends the run.
C15_BadRuleSkipped ==
    [][(/\ call.fn = "apply_rules" /\ call.pc = "loop"
        /\ call.k <= Len(call.dfr)
        /\ cannot_evaluate(call.dfr[call.k]))
          => /\ call'.pc = "loop"
             /\ call'.k = call.k + 1
             /\ call'.out = call.out]_vars

\* C16: a stored transaction row stays as it is, import_batch_id included,
\* through every later import, whatever the conflict policy.
C16_TransactionsImmutable ==
    [][\A t \in DOMAIN transactions :
          /\ t \in DOMAIN transactions'
          /\ transactions'[t] = transactions[t]]_vars

\* C17: a dry-run import leaves import_batches and transactions as they
\* were and prints the counts of the file; a dry run of the rules leaves
\* transaction_classifications as it was and returns the counts of the
\* unclassified transactions found and of those a rule matches.
C17_DryRunWritesNothing ==
    [][/\ (op'.name = "import" /\ op'.dry_run) =>
             /\ import_batches' = import_batches
             /\ transactions' = transactions
             /\ \E k \in StatementFiles :
                   op'.printed = id_summary(transform(ImportFiles[k]))
       /\ (op'.name = "classify" /\ op'.dry_run /\ op'.status = "ran") =>
             LET df == {t \in DOMAIN transactions :
                          current_of(transaction_classifications, t) = {}}
                 hit == {t \in df : matching(rules, transactions[t]) # {}}
             IN  /\ transaction_classifications'
                       = transaction_classifications
                 /\ op'.found = Cardinality(df)
                 /\ op'.classified = Cardinality(hit)
                 /\ op'.unclassified = Cardinality(df \ hit)]_vars

\* a dry run of the rules has found a transaction a rule assigns, and the
\* transaction has no record
C17_Witness ==
    /\ op.name = "classify" /\ op.dry_run /\ op.status = "ran"
    /\ op.classified > 0
    /\ \E t \in DOMAIN transactions :
          /\ records_of(transaction_classifications, t) = {}
          /\ \E a \in matching(rules, transactions[t]) :
                rules[a].category # NULL

C21_CommitContract ==
    [][\A i \in (Len(transaction_classifications) + 1)
                    ..Len(transaction_classifications') :
          /\ transaction_classifications'[i].is_current
          /\ \A j \in 1..Len(transaction_classifications) :
                transaction_classifications[j].transaction_id =
                    transaction_classifications'[i].transaction_id
                => ~transaction_classifications'[j].is_current]_vars

(***************************************************************************)
(* C22: when a rule run, which reads the unclassified set before it opens  *)
(* its write transaction, is interleaved with a manual categorization or   *)
(* with a second rule run, every transaction still has at most one record  *)
(* with is_current = true.                                                 *)
(***************************************************************************)
C22_InterleavedOneCurrent ==
    \A t \in DOMAIN transactions :
        Cardinality(current_of(transaction_classifications, t)) <= 1

\* the category_id the resolution gives the names of a stored row
resolved(row) ==
    resolve_category_id(categories, row.category, row.subcategory)

(***************************************************************************)
(* C23: category resolution gives the same result on every path: the       *)
(* category_id stored on a rule by rule creation or loading, on a record   *)
(* written by rule application and on a record written by a manual         *)
(* classification is an id the one resolution algorithm returns for the    *)
(* row's names on the tree of that moment.                                 *)
(***************************************************************************)
C23_OneResolution ==
    [][/\ \A i \in 1..Len(rules') :
             (i > Len(rules) \/ rules'[i] # rules[i])
             => rules'[i].category_id \in resolved(rules'[i])
       /\ \A i \in (Len(transaction_classifications) + 1)
                       ..Len(transaction_classifications') :
             transaction_classifications'[i].category_id
                 \in resolved(transaction_classifications'[i])]_vars

(***************************************************************************)
(* C25: creating a rule or a category that refers to a category that does  *)
(* not exist writes nothing: no category row is written under a parent_id  *)
(* that is not in the table, and no rule row is written (create_rule,      *)
(* load_rules_from_csv) whose category name resolves to no node.           *)
(***************************************************************************)
C25_MissingParentRejected ==
    [][/\ \A c \in DOMAIN categories' \ DOMAIN categories :
             categories'[c].parent_id \in DOMAIN categories' \cup {NULL}
       /\ \A i \in 1..Len(rules') :
             /\ i > Len(rules) \/ rules'[i] # rules[i]
             /\ rules'[i].category # NULL
             => resolved(rules'[i]) # {NULL}]_vars

\* the text predicates as literal, case-insensitive substring tests
literal_text_mask(row, conditions) ==
    /\ "not_contains" \in conditions.keys
          => \A val \in Range(conditions.not_contains) :
                ~contains_literal(row.description, val)
    /\ "must_contain_any" \in conditions.keys
          => \E val \in Range(conditions.must_contain_any) :
                contains_literal(row.description, val)
    /\ "must_contain_all" \in conditions.keys
          => \A val \in Range(conditions.must_contain_all) :
                contains_literal(row.description, val)

(***************************************************************************)
(* C24: apply_conditions only narrows: the result implies the input mask,  *)
(* and for a spec of text keys and unrecognized keys the result is the     *)
(* input mask AND-ed with the literal, case-insensitive substring tests of *)
(* not_contains, must_contain_any and must_contain_all; a value is never   *)
(* read as a pattern.                                                      *)
(***************************************************************************)
C24_TextLiteral ==
    (call.fn = "apply_conditions" /\ call.pc = "return")
    => /\ call.result => call.mask
       /\ (call.conditions.kind = "spec"
             /\ call.conditions.keys \subseteq
                   {"not_contains", "must_contain_any", "must_contain_all",
                    "note"})
          => (call.result <=>
                (call.mask /\ literal_text_mask(call.row, call.conditions)))

(***************************************************************************)
(* C26: a manual categorization is atomic on failure: a call that ends in  *)
(* an error, because the insert of the new record failed (500) or because  *)
(* the transaction id does not exist (404), leaves the classification      *)
(* records, is_current flags included, exactly as they were.               *)
(***************************************************************************)
C26_CategorizeAtomic ==
    [][(op'.name = "categorize" /\ op'.outcome \in {"500", "404"})
       => transaction_classifications' = transaction_classifications]_vars

\* a categorization failed at its insert while every transaction had a
\* current record, which the call had already flipped
C26_Witness ==
    /\ op.name = "categorize"
    /\ op.outcome = "500"
    /\ DOMAIN transactions # {}
    /\ \A t \in DOMAIN transactions :
          current_of(transaction_classifications, t) # {}

(***************************************************************************)
(* C27: after a non-dry run_classification every transaction the rule      *)
(* engine assigned a rule id in that run has a current record, so that the *)
(* transactions left without one are as many as the run reports            *)
(* unclassified, and the "classified" count the run returns is the number  *)
(* of records it wrote, also when the matching rule has no category.       *)
(***************************************************************************)
C27_ClassifiedCountIsWritten ==
    [][(op'.name = "classify" /\ ~op'.dry_run /\ op'.status = "ran")
       => /\ op'.classified =
                Len(transaction_classifications')
                    - Len(transaction_classifications)
          /\ op'.unclassified =
                Cardinality(load_unclassified_transactions(
                                transactions, transaction_classifications'))
       ]_vars

(***************************************************************************)
(* C28: a rule run is idempotent: a non-dry run made immediately after a   *)
(* non-dry run, the rule table and the transactions being unchanged and    *)
(* therefore iterated in the same order, writes no classification record   *)
(* and changes no is_current flag.                                         *)
(***************************************************************************)
C28_RunIdempotent ==
    [][(op'.name = "classify" /\ op'.status = "ran" /\ op'.repeat)
       => transaction_classifications' = transaction_classifications]_vars

\* a second run found transactions and the engine assigned one of them a
\* rule, after a run that the table holds a record of
C28_Witness ==
    /\ op.name = "classify"
    /\ op.status = "ran"
    /\ op.repeat
    /\ op.classified > 0
    /\ \E i \in 1..Len(transaction_classifications) :
          transaction_classifications[i].method = "rule"

(***************************************************************************)
(* C29: the final id the transform gives a row depends only on that row's  *)
(* own content, not on the other rows of the file or on the row's          *)
(* position: every row of a file gets the final id it gets when it is      *)
(* extracted from a file that holds it alone.                              *)
(***************************************************************************)
C29_IdOfRowAlone ==
    (call.fn = "transform" /\ call.pc = "return")
    => \A i \in 1..Len(call.df) :
          call.df_std[i].transaction_id =
              transform(<<call.df[i]>>)[1].transaction_id

\* the rows of a frame whose final id is neither synthetic nor suffixed
plain_ids(std) ==
    {i \in 1..Len(std) : /\ Head(std[i].transaction_id) # "synthetic-"
                         /\ "-dup-" \notin Range(std[i].transaction_id)}

(***************************************************************************)
(* C30: the id-type counts an import reports partition the rows: natural + *)
(* synthetic + duplicate-suffixed is the number of rows, no count is       *)
(* negative, and the natural count is the number of rows whose final id    *)
(* neither starts with "synthetic-" nor contains "-dup-".                  *)
(***************************************************************************)
C30_CountsPartition ==
    (op.name = "import" /\ op.dry_run)
    => /\ op.printed.natural + op.printed.synthetic + op.printed.dup
             = op.printed.rows
       /\ op.printed.natural >= 0
       /\ op.printed.synthetic >= 0
       /\ op.printed.dup >= 0
       /\ op.printed.natural =
             Cardinality(plain_ids(transform(ImportFiles[op.file])))

====
